---- MODULE Spec2Model ----
(***************************************************************************)
(* pydico: the class-level dependency-injection Container                  *)
(* (src/src/pydico/core/container.py).  The six class-level dictionaries   *)
(* are the state; every add_* classmethod is one action; a get call is     *)
(* executed frame by frame (get -> _get_service_by_* ->                    *)
(* _resolve_dependencies -> get ...), so the active resolution stack and   *)
(* a propagating exception are visible in the states.  SpecThreads runs    *)
(* the get calls of two threads interleaved; SpecInject adds the wrapper   *)
(* of the inject decorator (src/src/pydico/decorator.py).                  *)
(***************************************************************************)
EXTENDS Integers, Sequences, FiniteSets, TLC

\* ---------------------------------------------------------------- bounds
\* number of registrations stored by add_* calls
MaxAdds == 2
\* number of top-level Container.get calls explored
MaxGets == 2
\* nesting depth of get calls at which the interpreter raises RecursionError
\* (sys.getrecursionlimit() frames, three frames per nesting level)
RecursionLimit == 3

\* ------------------------------------------------- the application's classes
\* inspect.Parameter.empty
Empty == ""

Threads == {"main", "other"}

\* string keys used with add_keyed_* and get
StrKeys == {"proc"}

\* the sets of classes an application defines; one is chosen at start-up
Applications ==
  { {"ILogger", "ConsoleLogger"},
    {"ILogger", "ServiceA"},
    {"ServiceA", "ServiceB"},
    {"CircularDepA", "CircularDepB"},
    {"UnresolvedDep", "NeedsUnresolved"},
    {"ILogger", "LoggerThenUntyped"},
    {"ArgsParam"},
    {"Faulty", "NeedsFaulty"},
    {"ServiceA", "SubServiceA"},
    {"ServiceA", "ServiceAThenUntyped"} }

AllClasses == UNION Applications

\* class C(ABC) or a descendant of one: issubclass(C, ABC)
IsABC(c) == c \in {"ILogger", "ConsoleLogger"}

\* inspect.isabstract(C): an ABC with an abstract method left unimplemented
IsAbstract(c) == c \in {"ILogger"}

\* c.__mro__ without object: the classes i for which issubclass(c, i)
Mro(c) ==
  CASE c = "ConsoleLogger" -> {"ConsoleLogger", "ILogger"}
    [] c = "SubServiceA" -> {"SubServiceA", "ServiceA"}
    [] OTHER -> {c}

\* issubclass(d, i)
IsSubclass(d, i) == i \in Mro(d)

Par(n, k, a) == [name |-> n, kind |-> k, annotation |-> a]

\* inspect.signature(object.__init__): (self, /, *args, **kwargs)
ObjectInit ==
  << Par("self", "POSITIONAL_ONLY", Empty),
     Par("args", "VAR_POSITIONAL", Empty),
     Par("kwargs", "VAR_KEYWORD", Empty) >>

Receiver == Par("self", "POSITIONAL_OR_KEYWORD", Empty)

\* inspect.signature(C.__init__).parameters, with the resolved type hint of
\* each annotated parameter
Signature(c) ==
  CASE c = "ServiceB" ->
         << Receiver, Par("service_a", "POSITIONAL_OR_KEYWORD", "ServiceA") >>
    [] c = "CircularDepA" ->
         << Receiver, Par("b", "POSITIONAL_OR_KEYWORD", "CircularDepB") >>
    [] c = "CircularDepB" ->
         << Receiver, Par("a", "POSITIONAL_OR_KEYWORD", "CircularDepA") >>
    [] c = "UnresolvedDep" ->
         << Receiver, Par("missing_param", "POSITIONAL_OR_KEYWORD", Empty) >>
    [] c = "NeedsUnresolved" ->
         << Receiver, Par("dep", "POSITIONAL_OR_KEYWORD", "UnresolvedDep") >>
    [] c = "ArgsParam" ->
         << Receiver, Par("args", "POSITIONAL_OR_KEYWORD", Empty) >>
    [] c = "Faulty" -> << Receiver >>
    [] c = "NeedsFaulty" ->
         << Receiver, Par("dep", "POSITIONAL_OR_KEYWORD", "Faulty") >>
    [] c = "UserService" ->
         << Receiver, Par("logger", "POSITIONAL_OR_KEYWORD", "ILogger") >>
    [] c = "ServiceAThenUntyped" ->
         << Receiver, Par("service_a", "POSITIONAL_OR_KEYWORD", "ServiceA"),
            Par("missing_param", "POSITIONAL_OR_KEYWORD", Empty) >>
    [] c = "LoggerThenUntyped" ->
         << Receiver, Par("logger", "POSITIONAL_OR_KEYWORD", "ILogger"),
            Par("missing_param", "POSITIONAL_OR_KEYWORD", Empty) >>
    [] OTHER -> ObjectInit

\* the body of c.__init__ raises an exception of its own (a KeyError)
Raises(c) == c \in {"Faulty"}

\* ------------------------------------------------------------- exceptions
Err(t, m, c, p) == [type |-> t, msg |-> m, cls |-> c, param |-> p]

NoErr == Err("", "", "", "")

\* ------------------------------------------------------------------ state
VARIABLES
  classes,                      \* the classes the application defines
  _transients,                  \* Container._transients
  _singletons,                  \* Container._singletons
  _singleton_instances,         \* Container._singleton_instances
  _keyed_transients,            \* Container._keyed_transients
  _keyed_singletons,            \* Container._keyed_singletons
  _keyed_singleton_instances,   \* Container._keyed_singleton_instances
  heap,                         \* every object constructed so far, by identity
  stack,                        \* per thread: the _get_service_by_* frames
  calling,                      \* per thread: the key of a get call being entered
  exc,                          \* per thread: the exception being propagated
  request,                      \* per thread: the outermost get call in progress
  calls,                        \* the outermost get calls that have finished
  lastAdd,                      \* the add_* call just made and how it ended
  nAdds,                        \* number of registrations stored
  wrapper                       \* the call of an @inject wrapper in progress

definitions == << _transients, _singletons, _keyed_transients, _keyed_singletons >>

caches == << _singleton_instances, _keyed_singleton_instances >>

\* the state of the Container and of its callers
container == << classes, definitions, caches, heap, stack, calling, exc, request,
                calls, lastAdd, nAdds >>

vars == << container, wrapper >>

\* the empty dict
EmptyDict == [k \in {} |-> ""]

NoRequest == [key |-> "", active |-> FALSE, sdef |-> FALSE, selfreg |-> FALSE,
              tdef |-> FALSE, cached |-> FALSE, heap0 |-> 0]

NoAdd == [op |-> "", i |-> "", d |-> "", err |-> NoErr]

\* no wrapper call has been made
NoWrapper == [pc |-> "idle", func |-> "", supplied |-> {}, arguments |-> EmptyDict,
              idx |-> 0, gets |-> << >>]

Init ==
  /\ classes \in Applications
  /\ _transients = EmptyDict
  /\ _singletons = EmptyDict
  /\ _singleton_instances = EmptyDict
  /\ _keyed_transients = EmptyDict
  /\ _keyed_singletons = EmptyDict
  /\ _keyed_singleton_instances = EmptyDict
  /\ heap = << >>
  /\ stack = [t \in Threads |-> << >>]
  /\ calling = [t \in Threads |-> ""]
  /\ exc = [t \in Threads |-> NoErr]
  /\ request = [t \in Threads |-> NoRequest]
  /\ calls = << >>
  /\ lastAdd = NoAdd
  /\ nAdds = 0
  /\ wrapper = NoWrapper

\* ----------------------------------------------------------- registration
\* dict assignment  table[key] = value
Store(table, key, value) == [k \in DOMAIN table \cup {key} |->
                               IF k = key THEN value ELSE table[k]]

\* _validate_registration with the issubclass test left out
ValidateAbstractOnly(i, d) ==
  IF IsAbstract(d) THEN Err("TypeError", "abstract dependency", d, "")
  ELSE NoErr

\* Container._validate_registration: the TypeError it raises, or NoErr
_validate_registration(i, d) ==
  IF ~ IsSubclass(d, i) THEN Err("TypeError", "must be a subclass", d, i)
  ELSE IF IsAbstract(d) THEN Err("TypeError", "abstract dependency", d, "")
  ELSE NoErr

\* a thread runs add_* only between its own get calls
CanAdd(t) == /\ ~ request[t].active
             /\ nAdds < MaxAdds

Added(op, i, d, e) ==
  /\ lastAdd' = [op |-> op, i |-> i, d |-> d, err |-> e]
  /\ nAdds' = IF e = NoErr THEN nAdds + 1 ELSE nAdds
  /\ UNCHANGED << classes, caches, heap, stack, calling, exc, request, calls,
                  wrapper >>

add_transient(t, i, d) ==
  /\ CanAdd(t)
  /\ LET e == _validate_registration(i, d) IN
       /\ _transients' = IF e = NoErr THEN Store(_transients, i, d) ELSE _transients
       /\ Added("add_transient", i, d, e)
  /\ UNCHANGED << _singletons, _keyed_transients, _keyed_singletons >>

\* add_singleton_self writing the transient table
AddSelfAsTransient(t, d) ==
  /\ CanAdd(t)
  /\ _transients' = IF IsAbstract(d) THEN _transients ELSE Store(_transients, d, d)
  /\ Added("add_singleton_self", d, d,
           IF IsAbstract(d) THEN Err("TypeError", "abstract self-registration", d, "")
           ELSE NoErr)
  /\ UNCHANGED << _singletons, _keyed_transients, _keyed_singletons >>

add_singleton_self(t, d) ==
  /\ CanAdd(t)
  /\ LET e == IF IsAbstract(d) THEN Err("TypeError", "abstract self-registration", d, "")
              ELSE NoErr IN
       /\ _singletons' = IF e = NoErr THEN Store(_singletons, d, d) ELSE _singletons
       /\ Added("add_singleton_self", d, d, e)
  /\ UNCHANGED << _transients, _keyed_transients, _keyed_singletons >>

add_singleton(t, i, d) ==
  /\ CanAdd(t)
  /\ LET e == _validate_registration(i, d) IN
       /\ _singletons' = IF e = NoErr THEN Store(_singletons, i, d) ELSE _singletons
       /\ Added("add_singleton", i, d, e)
  /\ UNCHANGED << _transients, _keyed_transients, _keyed_singletons >>

\* add_keyed_transient writing the keyed singleton table as well
AddKeyedTransientBoth(t, key, d) ==
  /\ CanAdd(t)
  /\ _keyed_transients' = Store(_keyed_transients, key, d)
  /\ _keyed_singletons' = Store(_keyed_singletons, key, d)
  /\ Added("add_keyed_transient", key, d, NoErr)
  /\ UNCHANGED << _transients, _singletons >>

add_keyed_transient(t, key, d) ==
  /\ CanAdd(t)
  /\ _keyed_transients' = Store(_keyed_transients, key, d)
  /\ Added("add_keyed_transient", key, d, NoErr)
  /\ UNCHANGED << _transients, _singletons, _keyed_singletons >>

\* add_keyed_singleton discarding the instance cached for the key
AddKeyedSingletonInvalidating(t, key, d) ==
  /\ CanAdd(t)
  /\ _keyed_singletons' = Store(_keyed_singletons, key, d)
  /\ _keyed_singleton_instances' =
       [k \in DOMAIN _keyed_singleton_instances \ {key} |->
          _keyed_singleton_instances[k]]
  /\ lastAdd' = [op |-> "add_keyed_singleton", i |-> key, d |-> d, err |-> NoErr]
  /\ nAdds' = nAdds + 1
  /\ UNCHANGED << classes, _singleton_instances, heap, stack, calling, exc,
                  request, calls, wrapper >>
  /\ UNCHANGED << _transients, _singletons, _keyed_transients >>

add_keyed_singleton(t, key, d) ==
  /\ CanAdd(t)
  /\ _keyed_singletons' = Store(_keyed_singletons, key, d)
  /\ Added("add_keyed_singleton", key, d, NoErr)
  /\ UNCHANGED << _transients, _singletons, _keyed_transients >>

\* ------------------------------------------------------------- resolution
\* what the first half of a _get_service_by_* method decides
Cached(inst) == [kind |-> "cached", inst |-> inst, implementation |-> "",
                 is_singleton |-> FALSE, err |-> NoErr]

Build(impl, single) == [kind |-> "build", inst |-> 0, implementation |-> impl,
                        is_singleton |-> single, err |-> NoErr]

Raise(e) == [kind |-> "raise", inst |-> 0, implementation |-> "",
             is_singleton |-> FALSE, err |-> e]

\* _get_service_by_key looking at the transient table before the singleton one
KeyTransientFirst(key) ==
  IF key \in DOMAIN _keyed_singleton_instances
    THEN Cached(_keyed_singleton_instances[key])
  ELSE IF key \in DOMAIN _keyed_transients THEN Build(_keyed_transients[key], FALSE)
  ELSE IF key \in DOMAIN _keyed_singletons THEN Build(_keyed_singletons[key], TRUE)
  ELSE Raise(Err("LookupError", "no keyed service", key, ""))

\* Container._get_service_by_key, lines 114-124
_get_service_by_key(key) ==
  IF key \in DOMAIN _keyed_singleton_instances
    THEN Cached(_keyed_singleton_instances[key])
  ELSE IF key \in DOMAIN _keyed_singletons THEN Build(_keyed_singletons[key], TRUE)
  ELSE IF key \in DOMAIN _keyed_transients THEN Build(_keyed_transients[key], FALSE)
  ELSE Raise(Err("LookupError", "no keyed service", key, ""))

\* _get_service_by_interface falling back to the key as its own implementation
InterfaceWithFallback(i) ==
  IF i \in DOMAIN _singleton_instances THEN Cached(_singleton_instances[i])
  ELSE IF i \in DOMAIN _singletons THEN Build(_singletons[i], TRUE)
  ELSE IF i \in DOMAIN _transients THEN Build(_transients[i], FALSE)
  ELSE Build(i, FALSE)

\* Container._get_service_by_interface, lines 137-147
_get_service_by_interface(i) ==
  IF i \in DOMAIN _singleton_instances THEN Cached(_singleton_instances[i])
  ELSE IF i \in DOMAIN _singletons THEN Build(_singletons[i], TRUE)
  ELSE IF i \in DOMAIN _transients THEN Build(_transients[i], FALSE)
  ELSE Raise(Err("LookupError", "no service for interface", i, ""))

\* _get_service_by_dependency going straight to the implicit construction
DependencyAlwaysBuilds(d) == Build(d, FALSE)

\* _get_service_by_dependency caching the implicitly constructed instance
DependencyImplicitSingleton(d) ==
  IF d \in DOMAIN _singleton_instances THEN Cached(_singleton_instances[d])
  ELSE IF d \in DOMAIN _singletons THEN Build(_singletons[d], TRUE)
  ELSE Build(d, TRUE)

\* Container._get_service_by_dependency, lines 160-168
_get_service_by_dependency(d) ==
  IF d \in DOMAIN _singleton_instances THEN Cached(_singleton_instances[d])
  ELSE IF d \in DOMAIN _singletons THEN Build(_singletons[d], TRUE)
  ELSE Build(d, FALSE)

\* Container.get up to the call of _resolve_dependencies
get(key) ==
  IF key \in StrKeys THEN _get_service_by_key(key)
  ELSE IF IsABC(key) THEN _get_service_by_interface(key)
  ELSE _get_service_by_dependency(key)

\* the part of a loop iteration of _resolve_dependencies before the get call:
\* "skip", "no hint" or "resolve"
ParamStep(p) ==
  IF /\ p.kind \in {"VAR_POSITIONAL", "VAR_KEYWORD", "POSITIONAL_OR_KEYWORD"}
     /\ p.name \in {"self", "args", "kwargs"} THEN "skip"
  ELSE IF p.kind \in {"VAR_POSITIONAL", "VAR_KEYWORD"} THEN "skip"
  ELSE IF p.name = "self" THEN "skip"
  ELSE IF p.annotation = Empty THEN "no hint"
  ELSE "resolve"

\* the except clauses of _resolve_dependencies, applied to an exception
\* raised inside its try block
Handler(implementation, e) ==
  IF e.type = "ValueError" THEN e
  ELSE IF e.type = "RecursionError"
    THEN Err("RecursionError", "Circular dependency detected", implementation, "")
  ELSE Err("RuntimeError", "Failed to resolve dependencies", implementation, "")

\* the parameters a call implementation(**kwargs) has to supply
Required(implementation) ==
  { Signature(implementation)[n].name : n \in
      { m \in 2..Len(Signature(implementation)) :
          Signature(implementation)[m].kind
            \in {"POSITIONAL_OR_KEYWORD", "KEYWORD_ONLY"} } }

\* implementation(**kwargs): the exception the call raises, or NoErr
Instantiate(implementation, kwargs) ==
  IF IsAbstract(implementation)
    THEN Err("TypeError", "Can't instantiate abstract class", implementation, "")
  ELSE IF Required(implementation) \ DOMAIN kwargs # {}
    THEN Err("TypeError", "missing required argument", implementation, "")
  ELSE IF Raises(implementation)
    THEN Err("KeyError", "raised by the constructor", implementation, "")
  ELSE NoErr

\* --------------------------------------------------------- the call stack
\* a _get_service_by_* activation that is building an implementation,
\* together with the _resolve_dependencies call it makes
Frame(key, r) == [key |-> key, implementation |-> r.implementation,
                  is_singleton |-> r.is_singleton, idx |-> 1,
                  dependencies |-> EmptyDict]

Top(t) == stack[t][Len(stack[t])]

Pop(s) == SubSeq(s, 1, Len(s) - 1)

HasSingletonDef(key) ==
  IF key \in StrKeys THEN key \in DOMAIN _keyed_singletons
  ELSE key \in DOMAIN _singletons

HasTransientDef(key) ==
  IF key \in StrKeys THEN key \in DOMAIN _keyed_transients
  ELSE key \in DOMAIN _transients

HasInstance(key) ==
  IF key \in StrKeys THEN key \in DOMAIN _keyed_singleton_instances
  ELSE key \in DOMAIN _singleton_instances

IsSelfRegistered(key) ==
  /\ key \in DOMAIN _singletons
  /\ _singletons[key] = key

\* the record of an outermost get call that has ended: its key, the object
\* returned or the exception raised, what was registered for the key when the
\* call was made and the number of objects constructed during it
Finished(t, inst, e, h) ==
  [key |-> request[t].key, inst |-> inst, err |-> e,
   sdef |-> request[t].sdef, selfreg |-> request[t].selfreg,
   tdef |-> request[t].tdef,
   cached |-> request[t].cached, built |-> Len(h) - request[t].heap0]

\* a get call returns inst; stk are the frames of its callers
Return(t, stk, inst, h) ==
  IF stk = << >>
    THEN /\ calls' = Append(calls, Finished(t, inst, NoErr, h))
         /\ request' = [request EXCEPT ![t] = NoRequest]
         /\ stack' = [stack EXCEPT ![t] = << >>]
    ELSE /\ LET f == stk[Len(stk)]
                p == Signature(f.implementation)[f.idx]
            IN stack' = [stack EXCEPT ![t] = Append(Pop(stk),
                 [f EXCEPT !.dependencies = Store(@, p.name, inst),
                           !.idx = @ + 1])]
         /\ UNCHANGED << calls, request >>

\* e is raised; stk are the frames whose try blocks it has yet to pass
Throw(t, stk, e) ==
  IF stk = << >>
    THEN /\ calls' = Append(calls, Finished(t, 0, e, heap))
         /\ request' = [request EXCEPT ![t] = NoRequest]
         /\ stack' = [stack EXCEPT ![t] = << >>]
         /\ exc' = [exc EXCEPT ![t] = NoErr]
    ELSE /\ stack' = [stack EXCEPT ![t] = stk]
         /\ exc' = [exc EXCEPT ![t] = e]
         /\ UNCHANGED << calls, request >>

\* Container.get(key) is called
Call(t, key) ==
  /\ ~ request[t].active
  /\ Len(calls) + Cardinality({u \in Threads : request[u].active}) < MaxGets
  /\ request' = [request EXCEPT ![t] =
       [key |-> key, active |-> TRUE, sdef |-> HasSingletonDef(key),
        selfreg |-> IsSelfRegistered(key), tdef |-> HasTransientDef(key),
        cached |-> HasInstance(key),
        heap0 |-> Len(heap)]]
  /\ calling' = [calling EXCEPT ![t] = key]
  /\ lastAdd' = NoAdd
  /\ UNCHANGED << classes, definitions, caches, heap, stack, exc, calls, nAdds >>

\* the application calls Container.get(key)
GetCall(t, key) == Call(t, key) /\ UNCHANGED wrapper

\* get and the first half of _get_service_by_*: the cache check and the
\* choice of the implementation
Enter(t) ==
  /\ calling[t] # ""
  /\ calling' = [calling EXCEPT ![t] = ""]
  /\ LET key == calling[t]
         r == get(key)
     IN IF Len(stack[t]) >= RecursionLimit
          THEN Throw(t, stack[t],
                 Err("RecursionError", "maximum recursion depth exceeded", "", ""))
        ELSE IF r.kind = "cached"
          THEN Return(t, stack[t], r.inst, heap) /\ UNCHANGED exc
        ELSE IF r.kind = "raise"
          THEN Throw(t, stack[t], r.err)
        ELSE /\ stack' = [stack EXCEPT ![t] = Append(@, Frame(key, r))]
             /\ UNCHANGED << calls, request, exc >>
  /\ UNCHANGED << classes, definitions, caches, heap, lastAdd, nAdds, wrapper >>

\* one iteration of the loop of _resolve_dependencies, up to its get call
ResolveParam(t) ==
  /\ stack[t] # << >>
  /\ calling[t] = ""
  /\ exc[t] = NoErr
  /\ Top(t).idx <= Len(Signature(Top(t).implementation))
  /\ LET f == Top(t)
         p == Signature(f.implementation)[f.idx]
         a == ParamStep(p)
     IN IF a = "skip"
          THEN /\ stack' = [stack EXCEPT ![t][Len(stack[t])].idx = @ + 1]
               /\ UNCHANGED << calling, exc >>
        ELSE IF a = "no hint"
          THEN /\ exc' = [exc EXCEPT ![t] =
                    Err("ValueError", "requires a type hint", f.implementation, p.name)]
               /\ UNCHANGED << calling, stack >>
        ELSE /\ calling' = [calling EXCEPT ![t] = p.annotation]
             /\ UNCHANGED << stack, exc >>
  /\ UNCHANGED << classes, definitions, caches, heap, request, calls,
                  lastAdd, nAdds, wrapper >>

\* CacheStore with the cache write left out
CacheStoreNever(cache, is_singleton, key, inst) == cache

\* CacheStore with the is_singleton test left out
CacheStoreAlways(cache, is_singleton, key, inst) == Store(cache, key, inst)

\* CacheStore keeping the entry another thread has written meanwhile
CacheStoreIfAbsent(cache, is_singleton, key, inst) ==
  IF is_singleton /\ key \notin DOMAIN cache THEN Store(cache, key, inst) ELSE cache

\* the singleton-instance cache after "if is_singleton: cache[key] = instance"
CacheStore(cache, is_singleton, key, inst) ==
  IF is_singleton THEN Store(cache, key, inst) ELSE cache

\* Construct with the cache write placed before the constructor has returned:
\* an instance whose constructor raises stays in the cache
ConstructCachingFirst(t) ==
  /\ stack[t] # << >>
  /\ calling[t] = ""
  /\ exc[t] = NoErr
  /\ Top(t).idx > Len(Signature(Top(t).implementation))
  /\ LET f == Top(t)
         e == Instantiate(f.implementation, f.dependencies)
         rest == Pop(stack[t])
         obj == [cls |-> f.implementation, kwargs |-> f.dependencies,
                 key |-> f.key, is_singleton |-> f.is_singleton]
     IN /\ heap' = Append(heap, obj)
        /\ IF f.key \in StrKeys
             THEN /\ _keyed_singleton_instances' =
                       CacheStore(_keyed_singleton_instances,
                                  f.is_singleton, f.key, Len(heap) + 1)
                  /\ UNCHANGED _singleton_instances
             ELSE /\ _singleton_instances' =
                       CacheStore(_singleton_instances,
                                  f.is_singleton, f.key, Len(heap) + 1)
                  /\ UNCHANGED _keyed_singleton_instances
        /\ IF e # NoErr
             THEN Throw(t, rest, e)
             ELSE Return(t, rest, Len(heap) + 1, Append(heap, obj)) /\ UNCHANGED exc
  /\ UNCHANGED << classes, definitions, calling, lastAdd, nAdds, wrapper >>

\* the second half of _get_service_by_*: implementation(**kwargs), the cache
\* write and the return
Construct(t) ==
  /\ stack[t] # << >>
  /\ calling[t] = ""
  /\ exc[t] = NoErr
  /\ Top(t).idx > Len(Signature(Top(t).implementation))
  /\ LET f == Top(t)
         e == Instantiate(f.implementation, f.dependencies)
         rest == Pop(stack[t])
         obj == [cls |-> f.implementation, kwargs |-> f.dependencies,
                 key |-> f.key, is_singleton |-> f.is_singleton]
     IN IF e # NoErr
          THEN /\ Throw(t, rest, e)
               /\ UNCHANGED << heap, caches >>
        ELSE /\ heap' = Append(heap, obj)
             /\ IF f.key \in StrKeys
                  THEN /\ _keyed_singleton_instances' =
                            CacheStore(_keyed_singleton_instances,
                                       f.is_singleton, f.key, Len(heap) + 1)
                       /\ UNCHANGED _singleton_instances
                  ELSE /\ _singleton_instances' =
                            CacheStore(_singleton_instances,
                                       f.is_singleton, f.key, Len(heap) + 1)
                       /\ UNCHANGED _keyed_singleton_instances
             /\ Return(t, rest, Len(heap) + 1, Append(heap, obj))
             /\ UNCHANGED exc
  /\ UNCHANGED << classes, definitions, calling, lastAdd, nAdds, wrapper >>

\* an exception reaches the except clauses of the innermost active
\* _resolve_dependencies and leaves that frame
Propagate(t) ==
  /\ exc[t] # NoErr
  /\ stack[t] # << >>
  /\ Throw(t, Pop(stack[t]), Handler(Top(t).implementation, exc[t]))
  /\ UNCHANGED << classes, definitions, caches, heap, calling, lastAdd, nAdds,
                  wrapper >>

\* ---------------------------------------------------------- specification
Keys == classes \cup StrKeys

\* the registration calls a thread can make while the application allows it
RegisterIf(t, allowed) ==
  \/ allowed /\ \E i \in classes, d \in classes : add_transient(t, i, d)
  \/ allowed /\ \E d \in classes : add_singleton_self(t, d)
  \/ allowed /\ \E i \in classes, d \in classes : add_singleton(t, i, d)
  \/ allowed /\ \E k \in StrKeys, d \in classes : add_keyed_transient(t, k, d)
  \/ allowed /\ \E k \in StrKeys, d \in classes : add_keyed_singleton(t, k, d)

Register(t) == RegisterIf(t, TRUE)

\* a get call of a thread and the steps of its execution
Resolve(t) ==
  \/ \E k \in Keys : GetCall(t, k)
  \/ Enter(t)
  \/ ResolveParam(t)
  \/ Construct(t)
  \/ Propagate(t)

Step(t) == Register(t) \/ Resolve(t)

\* the container as the library is written for: one thread
Next == Step("main")

Spec == Init /\ [][Next]_vars

\* no get call has been made yet
Startup == /\ calls = << >>
           /\ \A t \in Threads : ~ request[t].active

\* the container used from two threads: the tables are class attributes and
\* no method takes a lock, so the steps of the threads' get calls interleave
\* freely.  The main thread registers the services at start-up; then both
\* threads resolve.
NextThreads ==
  \/ RegisterIf("main", Startup)
  \/ Resolve("main")
  \/ Resolve("other")

\* the applications of the two-thread runs
InitThreads ==
  /\ Init
  /\ classes \in { {"ILogger", "ConsoleLogger"}, {"ILogger", "LoggerThenUntyped"} }

SpecThreads == InitThreads /\ [][NextThreads]_vars

\* ------------------------------------------------- the inject decorator
\* the key of a marker made by Depends[t]
None == "None"

\* param.default: inspect.Parameter.empty, an ordinary default value, or the
\* marker Depends[t] / Depends[t, key]
NoDefault == [kind |-> "empty", t |-> "", key |-> ""]

Plain == [kind |-> "plain", t |-> "", key |-> ""]

Depends(t, key) == [kind |-> "Depends", t |-> t, key |-> key]

FPar(name, default) == [name |-> name, default |-> default]

\* the functions decorated with @inject
Functions == {"calculate", "func_to_test", "handle_request", "process",
              "greet", "make"}

\* inspect.signature(func).parameters; every parameter is positional-or-keyword,
\* so that *bound.args, **bound.kwargs hands each bound value to its parameter
Parameters(f) ==
  CASE f = "calculate" ->
         << FPar("a", NoDefault), FPar("logger", Depends("ILogger", None)),
            FPar("b", Plain) >>
    [] f = "func_to_test" ->
         << FPar("a", NoDefault), FPar("dep_c", Depends("ConfigService", None)),
            FPar("dep_t", Depends("TestDep", None)) >>
    [] f = "handle_request" ->
         << FPar("self", NoDefault), FPar("config", Depends("ConfigService", None)) >>
    [] f = "process" ->
         << FPar("data", NoDefault), FPar("processor", Depends("ILogger", "proc")) >>
    [] f = "greet" ->
         << FPar("name", NoDefault), FPar("service", Depends("UserService", None)) >>
    [] f = "make" ->
         << FPar("cls", Depends("ConfigService", None)) >>

Names(f) == { Parameters(f)[n].name : n \in 1..Len(Parameters(f)) }

\* the object inspect.Parameter.empty, as an argument value
ParameterEmpty == 0

\* the value the caller passes for the n-th parameter when it passes one:
\* an object of the caller's, none of the container's
SuppliedValue(f, name) ==
  0 - (CHOOSE n \in 1..Len(Parameters(f)) : Parameters(f)[n].name = name)

\* wrapper(*args, **kwargs) is called: sig.bind_partial(*args, **kwargs)
InjectCall(t, f, supplied) ==
  /\ wrapper.pc \in {"idle", "called", "raised"}
  /\ ~ request[t].active
  /\ Len(calls) < MaxGets
  /\ wrapper' = [pc |-> "loop", func |-> f, supplied |-> supplied,
                 arguments |-> [n \in supplied |-> SuppliedValue(f, n)],
                 idx |-> 1, gets |-> << >>]
  /\ UNCHANGED container

\* one iteration of the wrapper's loop over sig.parameters, up to the call of
\* Container.get
InjectParam(t) ==
  /\ wrapper.pc = "loop"
  /\ wrapper.idx <= Len(Parameters(wrapper.func))
  /\ LET p == Parameters(wrapper.func)[wrapper.idx]
         key_or_provider == IF p.default.key # None THEN p.default.key
                            ELSE p.default.t
     IN IF p.name \in {"self", "cls"}
          THEN /\ wrapper' = [wrapper EXCEPT !.idx = @ + 1]
               /\ UNCHANGED container
        ELSE IF /\ p.name \in DOMAIN wrapper.arguments
                /\ wrapper.arguments[p.name] # ParameterEmpty
          THEN /\ wrapper' = [wrapper EXCEPT !.idx = @ + 1]
               /\ UNCHANGED container
        ELSE IF p.default.kind = "Depends"
          THEN /\ Call(t, key_or_provider)
               /\ wrapper' = [wrapper EXCEPT !.pc = "get",
                                             !.gets = Append(@, key_or_provider)]
        ELSE /\ wrapper' = [wrapper EXCEPT !.idx = @ + 1]
             /\ UNCHANGED container

\* Container.get returns to the wrapper, or raises through it
InjectReturn(t) ==
  /\ wrapper.pc = "get"
  /\ ~ request[t].active
  /\ LET c == calls[Len(calls)]
         p == Parameters(wrapper.func)[wrapper.idx]
     IN wrapper' = IF c.err = NoErr
                     THEN [wrapper EXCEPT !.pc = "loop", !.idx = @ + 1,
                             !.arguments = Store(@, p.name, c.inst)]
                   ELSE [wrapper EXCEPT !.pc = "raised"]
  /\ UNCHANGED container

\* func(*bound.args, **bound.kwargs): the function runs with the bound
\* arguments, unless a parameter without a default is left without a value
InjectInvoke(t) ==
  /\ wrapper.pc = "loop"
  /\ wrapper.idx > Len(Parameters(wrapper.func))
  /\ wrapper' = [wrapper EXCEPT !.pc =
       IF \E n \in 1..Len(Parameters(wrapper.func)) :
            /\ Parameters(wrapper.func)[n].default.kind = "empty"
            /\ Parameters(wrapper.func)[n].name \notin DOMAIN wrapper.arguments
         THEN "raised" ELSE "called"]
  /\ UNCHANGED container

\* an application that registers its services and then calls @inject functions
NextInject ==
  \/ RegisterIf("main", wrapper.pc = "idle")
  \/ \E f \in Functions : \E supplied \in SUBSET Names(f) :
        InjectCall("main", f, supplied)
  \/ InjectParam("main")
  \/ InjectReturn("main")
  \/ InjectInvoke("main")
  \/ Enter("main")
  \/ ResolveParam("main")
  \/ Construct("main")
  \/ Propagate("main")

InitInject == Init /\ classes = {"ILogger", "ConsoleLogger"}

SpecInject == InitInject /\ [][NextInject]_vars

\* ------------------------------------------------------------- properties
Ok(n) == calls[n].err = NoErr

Calls == 1..Len(calls)

\* nothing is registered or cached for the key
Unregistered(key) ==
  /\ ~ HasInstance(key)
  /\ ~ HasSingletonDef(key)
  /\ ~ HasTransientDef(key)

\* the objects constructed as the singleton of a key
SingletonsBuilt(key) ==
  { o \in 1..Len(heap) : heap[o].key = key /\ heap[o].is_singleton }

\* C1  Singleton identity: all get calls for a key that has a singleton
\* definition which return at all return the same object, and that key's
\* implementation has been constructed as its singleton exactly once.
C1_SingletonIdentity ==
  /\ \A m, n \in Calls :
       ( /\ calls[m].key = calls[n].key
         /\ calls[m].sdef /\ calls[n].sdef
         /\ Ok(m) /\ Ok(n) ) => calls[m].inst = calls[n].inst
  /\ \A n \in Calls :
       (calls[n].sdef /\ Ok(n)) =>
          /\ Cardinality(SingletonsBuilt(calls[n].key)) = 1
          /\ SingletonsBuilt(calls[n].key) = {calls[n].inst}

C1_Witness ==
  \E m, n \in Calls :
    /\ m < n
    /\ calls[m].key = calls[n].key
    /\ calls[m].sdef /\ ~ calls[m].cached
    /\ Ok(m) /\ Ok(n)
    /\ calls[m].built >= 1 /\ calls[n].built = 0

\* C2  Transient uniqueness: two get calls for a key whose only definition is
\* a transient one return two different objects, each an instance of the key
\* when the key is a type, and such a key has no entry in a singleton cache.
C2_TransientUniqueness ==
  /\ \A m, n \in Calls :
       ( /\ m < n
         /\ calls[m].key = calls[n].key
         /\ calls[m].tdef /\ ~ calls[n].sdef
         /\ Ok(m) /\ Ok(n) ) =>
            /\ calls[m].inst # calls[n].inst
            /\ \A o \in {calls[m].inst, calls[n].inst} :
                 calls[m].key \in StrKeys \/ IsSubclass(heap[o].cls, calls[m].key)
  /\ \A k \in Keys :
       (HasTransientDef(k) /\ ~ HasSingletonDef(k)) => ~ HasInstance(k)

C2_Witness ==
  \E m, n \in Calls :
    /\ m < n
    /\ calls[m].key = calls[n].key
    /\ IsAbstract(calls[m].key)
    /\ calls[m].tdef /\ ~ calls[n].sdef
    /\ Ok(m) /\ Ok(n)
    /\ calls[m].inst # calls[n].inst
    /\ _singleton_instances = EmptyDict

\* C3  Self-registration: add_singleton_self(d) for a class d that is not
\* abstract never fails and leaves d registered as its own singleton; a get(d)
\* made while d is so registered never fails as unregistered, and when it
\* returns, it returns an instance of d, the same one on every later call.
C3_SelfRegistration ==
  /\ (lastAdd.op = "add_singleton_self" /\ ~ IsAbstract(lastAdd.d)) =>
        /\ lastAdd.err = NoErr
        /\ IsSelfRegistered(lastAdd.d)
  /\ \A n \in Calls :
       calls[n].selfreg =>
          /\ calls[n].err.type # "LookupError"
          /\ Ok(n) => IsSubclass(heap[calls[n].inst].cls, calls[n].key)
          /\ \A m \in Calls :
               (m > n /\ calls[m].key = calls[n].key /\ Ok(n) /\ Ok(m))
                  => calls[m].inst = calls[n].inst

C3_Witness ==
  \E m, n \in Calls :
    /\ m < n
    /\ calls[m].key = calls[n].key
    /\ IsABC(calls[m].key)
    /\ calls[m].selfreg /\ ~ calls[m].cached
    /\ Ok(m) /\ Ok(n)
    /\ calls[m].inst = calls[n].inst
    /\ nAdds = 1

\* C4  Mismatch rejection: add_transient(i, d) or add_singleton(i, d) with d
\* not a subclass of i raises the must-be-a-subclass TypeError and changes no
\* table and no cache, so a get(i) that would have failed as unregistered
\* before the call still fails as unregistered after it.
C4_MismatchRejection ==
  [][ lastAdd'.op \in {"add_transient", "add_singleton"} =>
        \A i \in classes, d \in classes :
          ( /\ lastAdd'.i = i /\ lastAdd'.d = d
            /\ ~ IsSubclass(d, i) ) =>
               /\ lastAdd'.err = Err("TypeError", "must be a subclass", d, i)
               /\ UNCHANGED << definitions, caches, heap >>
               /\ (get(i).err.type = "LookupError")
                     => (get(i).err.type = "LookupError")' ]_vars

C4_Witness ==
  /\ lastAdd.op = "add_transient"
  /\ lastAdd.err.msg = "must be a subclass"
  /\ IsAbstract(lastAdd.i)
  /\ Unregistered(lastAdd.i)
  /\ get(lastAdd.i).err.type = "LookupError"

\* C5  Constructible implementations: every entry of every definition table
\* maps its key to a class that is not abstract.
C5_ConstructibleImplementations ==
  /\ \A k \in DOMAIN _transients : ~ IsAbstract(_transients[k])
  /\ \A k \in DOMAIN _singletons : ~ IsAbstract(_singletons[k])
  /\ \A k \in DOMAIN _keyed_transients : ~ IsAbstract(_keyed_transients[k])
  /\ \A k \in DOMAIN _keyed_singletons : ~ IsAbstract(_keyed_singletons[k])

\* the classes an exception's message names
Named(e) == {e.cls} \ {""}

\* C6  Cycle detection: with CircularDepA and CircularDepB registered as
\* singletons, get(CircularDepA) ends with the circular-dependency error,
\* returns no object, caches nothing for either class, and the error names
\* both classes of the cycle.
C6_CycleChainReported ==
  \A n \in Calls :
    ( /\ calls[n].key = "CircularDepA"
      /\ calls[n].selfreg
      /\ IsSelfRegistered("CircularDepB") ) =>
         /\ calls[n].err.type = "RecursionError"
         /\ calls[n].err.msg = "Circular dependency detected"
         /\ calls[n].inst = 0
         /\ ~ HasInstance("CircularDepA") /\ ~ HasInstance("CircularDepB")
         /\ {"CircularDepA", "CircularDepB"} \subseteq Named(calls[n].err)

\* C7  Deterministic cycle check: no implementation is on a thread's active
\* resolution stack twice.
C7_NoRepeatOnStack ==
  \A t \in Threads : \A a, b \in 1..Len(stack[t]) :
    a # b => stack[t][a].implementation # stack[t][b].implementation

\* C8  Implicit resolution: get(key) for a class that is not abstract, has a
\* zero-parameter constructor and has no registration and no cached instance
\* returns a new instance of key itself.
C8_ImplicitResolution ==
  \A n \in Calls :
    ( /\ calls[n].key \in classes
      /\ ~ IsAbstract(calls[n].key)
      /\ Signature(calls[n].key) = ObjectInit
      /\ ~ calls[n].sdef /\ ~ calls[n].tdef /\ ~ calls[n].cached ) =>
         /\ Ok(n)
         /\ heap[calls[n].inst].cls = calls[n].key
         /\ ~ heap[calls[n].inst].is_singleton
         /\ \A m \in Calls : m < n => calls[m].inst # calls[n].inst

\* C9  No fallback: a get call (below the recursion limit) for a string key or
\* an abstract class that has no cached instance, no singleton definition and
\* no transient definition raises LookupError, constructs nothing and leaves
\* every table and cache as it was.
C9_NoFallback ==
  [][ \A t \in Threads :
        ( /\ calling[t] # ""
          /\ calling'[t] = ""
          /\ calling[t] \in StrKeys \/ IsAbstract(calling[t])
          /\ Unregistered(calling[t])
          /\ Len(stack[t]) < RecursionLimit ) =>
             /\ UNCHANGED << definitions, caches, heap >>
             /\ IF stack[t] = << >>
                  THEN /\ Len(calls') = Len(calls) + 1
                       /\ calls'[Len(calls')].key = calling[t]
                       /\ calls'[Len(calls')].err.type = "LookupError"
                       /\ calls'[Len(calls')].err.cls = calling[t]
                       /\ calls'[Len(calls')].inst = 0
                       /\ calls'[Len(calls')].built = 0
                  ELSE /\ exc'[t].type = "LookupError"
                       /\ exc'[t].cls = calling[t]
                       /\ stack'[t] = stack[t] ]_vars

C9_Witness ==
  /\ \E n \in Calls : calls[n].key \in StrKeys /\ calls[n].err.type = "LookupError"
  /\ \E n \in Calls : IsAbstract(calls[n].key) /\ calls[n].err.type = "LookupError"

\* the constructor of c has a parameter p that is neither the receiver nor
\* variadic and carries no annotation
Untyped(c, p) ==
  \E n \in 2..Len(Signature(c)) :
    /\ Signature(c)[n].name = p
    /\ Signature(c)[n].kind \notin {"VAR_POSITIONAL", "VAR_KEYWORD"}
    /\ Signature(c)[n].annotation = Empty

\* how the frame on top of t's stack ends in a step that removes it
Outcome(t) == IF Len(stack[t]) = 1 THEN calls'[Len(calls')].err ELSE exc'[t]

\* C10  Missing annotation: a frame building an implementation that has an
\* unannotated non-receiver, non-variadic parameter ends (unless a dependency
\* listed before that parameter has failed) with the missing-type-hint
\* ValueError naming that implementation and parameter, and every enclosing
\* frame passes the ValueError on unchanged.
C10_MissingAnnotation ==
  [][ \A t \in Threads :
        (stack[t] # << >> /\ Len(stack'[t]) < Len(stack[t])) =>
           /\ ( /\ \E p \in {"missing_param", "args"} : Untyped(Top(t).implementation, p)
                /\ exc[t].type \in {"", "ValueError"} ) =>
                   /\ Outcome(t).type = "ValueError"
                   /\ Outcome(t).msg = "requires a type hint"
                   /\ Untyped(Outcome(t).cls, Outcome(t).param)
           /\ exc[t].type = "ValueError" => Outcome(t) = exc[t] ]_vars

\* the kinds of failure the container itself reports: an unregistered
\* dependency, a missing type hint, a circular dependency
ContainerKinds == {"LookupError", "ValueError", "RecursionError"}

\* C11  Nested failure propagation: when a failure of a container kind
\* leaves a frame, it leaves it with the same kind, at every nesting depth up
\* to the caller of the outermost get.
C11_NestedFailurePropagation ==
  [][ \A t \in Threads :
        ( /\ stack[t] # << >>
          /\ Len(stack'[t]) < Len(stack[t])
          /\ exc[t].type \in ContainerKinds ) =>
             Outcome(t).type = exc[t].type ]_vars

\* C12  Constructor failure wrapping: an exception raised by the body of a
\* constructor never reaches the caller of the outermost get as it was raised
\* (it arrives wrapped), and a frame that receives the wrapping error passes
\* it on as it is (it is never wrapped again).
C12_ConstructorFailureWrapping ==
  [][ /\ \A n \in 1..Len(calls') :
           calls'[n].err.msg # "raised by the constructor"
      /\ \A t \in Threads :
           ( /\ stack[t] # << >>
             /\ Len(stack'[t]) < Len(stack[t])
             /\ exc[t].type = "RuntimeError" ) => Outcome(t) = exc[t] ]_vars

\* the step is an add_* call
AddStep == /\ lastAdd'.op # ""
           /\ lastAdd' # lastAdd \/ nAdds' # nAdds

\* the instance cached for a key
CachedInstance(key) ==
  IF key \in StrKeys THEN _keyed_singleton_instances[key]
  ELSE _singleton_instances[key]

\* C13  First resolution wins: an add_* call leaves both instance caches as
\* they are, and an outermost get for a key that has a cached instance
\* returns that instance, constructs nothing and changes no cache, whatever
\* is registered for the key by then.
C13_FirstResolutionWins ==
  [][ /\ AddStep => UNCHANGED caches
      /\ \A t \in Threads :
           ( /\ calling[t] # ""
             /\ calling'[t] = ""
             /\ stack[t] = << >>
             /\ HasInstance(calling[t]) ) =>
                /\ Len(calls') = Len(calls) + 1
                /\ calls'[Len(calls')].key = calling[t]
                /\ calls'[Len(calls')].err = NoErr
                /\ calls'[Len(calls')].inst = CachedInstance(calling[t])
                /\ calls'[Len(calls')].built = 0
                /\ UNCHANGED << caches, heap >> ]_vars

\* a singleton was cached by one get, a transient definition naming another
\* class was then registered for the key, and a later get returned the
\* cached instance
C13_Witness ==
  \E m, n \in Calls :
    /\ m < n
    /\ calls[m].key = calls[n].key
    /\ calls[m].sdef /\ ~ calls[m].tdef /\ ~ calls[m].cached
    /\ calls[n].tdef /\ calls[n].cached
    /\ Ok(m) /\ Ok(n)
    /\ calls[m].inst = calls[n].inst
    /\ calls[n].key \in StrKeys
    /\ _keyed_transients[calls[n].key] # heap[calls[n].inst].cls

\* the type hint of the constructor parameter of class c named name
Annotation(c, name) ==
  Signature(c)[CHOOSE n \in 1..Len(Signature(c)) : Signature(c)[n].name = name].annotation

\* every constructed object's constructor argument that was built as the
\* singleton of its parameter's type is the object every successful direct
\* get of that type, made while it had a singleton definition, has returned
SharedWithDirectGet ==
  \A o \in 1..Len(heap) : \A p \in DOMAIN heap[o].kwargs :
    LET v == heap[o].kwargs[p]
        S == Annotation(heap[o].cls, p)
    IN (heap[v].is_singleton /\ heap[v].key = S) =>
          \A n \in Calls :
            (calls[n].key = S /\ calls[n].sdef /\ Ok(n)) => calls[n].inst = v

\* C14  Shared singleton through constructor injection: when a value is bound
\* to a constructor parameter whose type S has a singleton definition, the
\* value is the instance cached for S; and the value so bound is the object
\* direct get(S) calls return, whether made before or after the binding.
C14_SharedSingletonInjection ==
  [][ /\ \A t \in Threads :
           LET j == Len(stack'[t]) IN
           ( /\ j >= 1 /\ Len(stack[t]) >= j
             /\ stack'[t][j].idx = stack[t][j].idx + 1
             /\ DOMAIN stack'[t][j].dependencies # DOMAIN stack[t][j].dependencies ) =>
                LET f == stack[t][j]
                    p == Signature(f.implementation)[f.idx]
                    S == p.annotation
                    v == stack'[t][j].dependencies[p.name]
                IN S \in DOMAIN _singletons =>
                     /\ S \in DOMAIN _singleton_instances'
                     /\ v = _singleton_instances'[S]
      /\ SharedWithDirectGet' ]_vars

\* ServiceA is a singleton; get(ServiceB) constructed it as its dependency
\* and a later direct get(ServiceA) returned the object ServiceB holds
C14_Witness ==
  \E m, n \in Calls :
    /\ m < n
    /\ calls[m].key = "ServiceB" /\ Ok(m) /\ calls[m].built = 2
    /\ calls[n].key = "ServiceA" /\ Ok(n) /\ calls[n].sdef
    /\ heap[calls[m].inst].kwargs["service_a"] = calls[n].inst

\* the keys other than d whose singleton definition names d
RegisteredAsImplementation(d) ==
  { i \in DOMAIN _singletons : i # d /\ _singletons[i] = d }

\* C15  Reverse lookup by implementation: an outermost get(d) for a class d
\* that is registered under no key of its own but is the implementation of
\* the singleton definition of a key i returns, and returns the singleton
\* instance of i.
C15_ReverseLookup ==
  [][ Len(calls') = Len(calls) + 1 =>
        LET c == calls'[Len(calls')] IN
        \A i \in RegisteredAsImplementation(c.key) :
          (~ c.sdef /\ ~ c.tdef) =>
             /\ c.err = NoErr
             /\ i \in DOMAIN _singleton_instances'
             /\ c.inst = _singleton_instances'[i] ]_vars

\* C16  Unguarded concurrent first access: a frame that has passed the cache
\* check for a singleton key does not look at the cache again: when it
\* constructs, the object is a new one, it is written to the cache over
\* whatever entry another thread has written since, and it is what that
\* thread's own get returns.  (C16_Witness is the state the claim says is
\* reachable: two gets of one singleton key with two different instances.)
C16_UnguardedFirstAccess ==
  [][ Len(heap') = Len(heap) + 1 =>
        LET o == Len(heap')
            k == heap'[o].key
        IN heap'[o].is_singleton =>
             /\ IF k \in StrKeys THEN _keyed_singleton_instances'[k] = o
                                 ELSE _singleton_instances'[k] = o
             /\ \A n \in Calls : calls[n].inst # o
             /\ Len(calls') = Len(calls) + 1 =>
                   /\ calls'[Len(calls')].key = k
                   /\ calls'[Len(calls')].inst = o ]_vars

\* two threads' gets of the same singleton key have both returned, with
\* different objects, both constructed as the singleton of that key
C16_Witness ==
  \E m, n \in Calls :
    /\ m # n
    /\ calls[m].key = calls[n].key
    /\ calls[m].sdef /\ calls[n].sdef
    /\ Ok(m) /\ Ok(n)
    /\ calls[m].inst # calls[n].inst
    /\ SingletonsBuilt(calls[m].key) = {calls[m].inst, calls[n].inst}
    /\ HasInstance(calls[m].key)

\* the definition tables, in the order of the tuple definitions
Table(n) == definitions[n]

\* C17  Registration does not instantiate: an add_* call, whether it raises
\* or not, constructs nothing and leaves both instance caches and every get
\* in progress as they are; one that does not raise writes the entry
\* key -> implementation into one definition table and leaves the other
\* entries of that table and the three other tables as they are.
C17_RegistrationOnly ==
  [][ AddStep =>
        /\ UNCHANGED << heap, caches, stack, calling, exc, request, calls >>
        /\ lastAdd'.err = NoErr =>
              \E n \in 1..4 :
                /\ Table(n)' = Store(Table(n), lastAdd'.i, lastAdd'.d)
                /\ \A m \in (1..4) \ {n} : Table(m)' = Table(m) ]_vars

\* a registration was stored while a singleton instance was already cached
\* and objects had been constructed
C17_Witness ==
  /\ lastAdd.op # ""
  /\ lastAdd.err = NoErr
  /\ nAdds = 2
  /\ heap # << >>
  /\ \E k \in Keys : HasInstance(k)

\* the keys of the parameters of f from the n-th on whose default is a
\* Depends marker and for which the caller passed no value, in the order of
\* the parameters
RECURSIVE ExpectedGets(_, _, _)
ExpectedGets(f, supplied, n) ==
  IF n > Len(Parameters(f)) THEN << >>
  ELSE LET p == Parameters(f)[n]
           rest == ExpectedGets(f, supplied, n + 1)
       IN IF p.default.kind = "Depends" /\ p.name \notin supplied
            THEN << IF p.default.key # None THEN p.default.key ELSE p.default.t >>
                   \o rest
          ELSE rest

\* C18  Decorator injection: when the wrapped function is invoked, the
\* wrapper has called Container.get once for each parameter that has a
\* Depends default and no value from the caller, with the marker's key or
\* else its type, and for no other parameter; while the wrapper runs its get
\* calls are an initial part of that list and the caller's values stay bound
\* to their parameters.
C18_DecoratorInjection ==
  LET expected == ExpectedGets(wrapper.func, wrapper.supplied, 1) IN
  /\ wrapper.pc = "called" => wrapper.gets = expected
  /\ wrapper.pc # "idle" =>
        /\ Len(wrapper.gets) <= Len(expected)
        /\ \A n \in 1..Len(wrapper.gets) : wrapper.gets[n] = expected[n]
        /\ \A p \in wrapper.supplied :
             wrapper.arguments[p] = SuppliedValue(wrapper.func, p)

\* C19  Transient definition precedes implicit fallback: an outermost get
\* for a type key that has a transient definition, no singleton definition
\* and no cached instance, when it returns, returns an instance of the
\* implementation the transient definition names.
C19_TransientBeforeImplicit ==
  [][ Len(calls') = Len(calls) + 1 =>
        LET c == calls'[Len(calls')] IN
        ( /\ c.key \notin StrKeys
          /\ c.tdef /\ ~ c.sdef /\ ~ c.cached
          /\ c.err = NoErr ) =>
             heap'[c.inst].cls = _transients[c.key] ]_vars

\* the implementation the singleton definition of a key names
SingletonDef(key) ==
  IF key \in StrKeys THEN _keyed_singletons[key] ELSE _singletons[key]

\* C20  Singleton definition precedes transient definition: every object
\* constructed for a key that has both a singleton and a transient
\* definition is an instance of the singleton definition's implementation,
\* is constructed as the singleton and is written to the instance cache; an
\* outermost get for such a key that returns, returns the instance the cache
\* then holds for the key, which is of the singleton definition's
\* implementation when this get constructed it.
C20_SingletonBeforeTransient ==
  [][ /\ Len(heap') = Len(heap) + 1 =>
           LET o == heap'[Len(heap')] IN
           (HasSingletonDef(o.key) /\ HasTransientDef(o.key)) =>
              /\ o.is_singleton
              /\ o.cls = SingletonDef(o.key)
              /\ IF o.key \in StrKeys
                   THEN _keyed_singleton_instances'[o.key] = Len(heap')
                   ELSE _singleton_instances'[o.key] = Len(heap')
      /\ Len(calls') = Len(calls) + 1 =>
           LET c == calls'[Len(calls')] IN
           (c.sdef /\ c.tdef /\ c.err = NoErr) =>
              /\ heap'[c.inst].is_singleton
              /\ ~ c.cached => heap'[c.inst].cls = SingletonDef(c.key)
              /\ c.inst = IF c.key \in StrKeys
                            THEN _keyed_singleton_instances'[c.key]
                            ELSE _singleton_instances'[c.key] ]_vars

\* a key has a singleton and a transient definition naming different
\* classes; two gets returned the one instance of the singleton's class
C20_Witness ==
  \E m, n \in Calls :
    /\ m < n
    /\ calls[m].key = calls[n].key
    /\ calls[m].sdef /\ calls[m].tdef /\ ~ calls[m].cached
    /\ calls[n].cached
    /\ Ok(m) /\ Ok(n)
    /\ calls[m].inst = calls[n].inst
    /\ calls[m].key \in StrKeys
    /\ _keyed_singletons[calls[m].key] # _keyed_transients[calls[m].key]
    /\ heap[calls[m].inst].cls = _keyed_singletons[calls[m].key]

\* C21  Cache implies definition: every key of an instance cache has an entry
\* in the singleton-definition table of the same namespace, and the object
\* cached for it was constructed as the singleton of that key; no object
\* constructed for a transient definition or by implicit self-resolution is
\* in a cache.
C21_CacheImpliesDefinition ==
  /\ \A k \in DOMAIN _singleton_instances :
       /\ k \in DOMAIN _singletons
       /\ heap[_singleton_instances[k]].is_singleton
       /\ heap[_singleton_instances[k]].key = k
  /\ \A k \in DOMAIN _keyed_singleton_instances :
       /\ k \in DOMAIN _keyed_singletons
       /\ heap[_keyed_singleton_instances[k]].is_singleton
       /\ heap[_keyed_singleton_instances[k]].key = k
  /\ \A o \in 1..Len(heap) :
       ~ heap[o].is_singleton =>
          /\ \A k \in DOMAIN _singleton_instances : _singleton_instances[k] # o
          /\ \A k \in DOMAIN _keyed_singleton_instances :
               _keyed_singleton_instances[k] # o

\* one get has cached a singleton and another get, for a key without a
\* singleton definition, has constructed and returned an object that is in
\* no cache
C21_Witness ==
  /\ \E k \in Keys : HasInstance(k)
  /\ \E n \in Calls :
       /\ ~ calls[n].sdef /\ Ok(n) /\ calls[n].built >= 1
       /\ ~ heap[calls[n].inst].is_singleton
       /\ ~ HasInstance(calls[n].key)

\* the step leaves the instance caches as they are, or it is the completed
\* construction of a singleton, which adds the new object under its key
CachesGrowByCompletedSingleton ==
  \/ UNCHANGED caches
  \/ /\ Len(heap') = Len(heap) + 1
     /\ LET o == heap'[Len(heap')] IN
          /\ o.is_singleton
          /\ ~ HasInstance(o.key)
          /\ IF o.key \in StrKeys
               THEN /\ _keyed_singleton_instances' =
                         Store(_keyed_singleton_instances, o.key, Len(heap'))
                    /\ UNCHANGED _singleton_instances
               ELSE /\ _singleton_instances' =
                         Store(_singleton_instances, o.key, Len(heap'))
                    /\ UNCHANGED _keyed_singleton_instances

\* C22  No partial caching on failure: no step of a get call changes a
\* definition table, and the instance caches change only by the completed
\* construction of a singleton; while an exception propagates, no frame
\* still on the stack has an instance cached for its key; and when an
\* outermost get fails, nothing is cached for its key, and the objects
\* constructed during the call that are in a cache are exactly the singletons
\* whose construction completed, each under its own key.
C22_NoPartialCaching ==
  [][ /\ ~ AddStep => UNCHANGED definitions
      /\ CachesGrowByCompletedSingleton
      /\ \A t \in Threads :
           exc'[t] # NoErr =>
             \A n \in 1..Len(stack'[t]), k \in Keys :
               (stack'[t][n].is_singleton /\ stack'[t][n].key = k) =>
                  ~ HasInstance(k)'
      /\ \A t \in Threads :
           ( /\ request[t].active /\ ~ request'[t].active
             /\ calls'[Len(calls')].err # NoErr ) =>
                LET c == calls'[Len(calls')]
                    during == (request[t].heap0 + 1)..Len(heap)
                IN /\ UNCHANGED << caches, heap >>
                   /\ c.inst = 0
                   /\ ~ HasInstance(c.key)
                   /\ \A o \in during :
                        IF heap[o].is_singleton
                          THEN /\ HasInstance(heap[o].key)
                               /\ CachedInstance(heap[o].key) = o
                        ELSE \A k \in Keys :
                               HasInstance(k) => CachedInstance(k) # o ]_vars

\* a get failed after a singleton dependency had been constructed during
\* it: the dependency is cached, the requested key is not
C22_Witness ==
  \E n \in Calls :
    /\ ~ Ok(n)
    /\ calls[n].built >= 1
    /\ ~ HasInstance(calls[n].key)
    /\ \E o \in 1..Len(heap) :
         /\ heap[o].is_singleton
         /\ heap[o].key # calls[n].key
         /\ HasInstance(heap[o].key)
         /\ CachedInstance(heap[o].key) = o
    /\ \A m \in Calls : m < n => ~ Ok(m)

====
